---------------------------- MODULE Spec2Model ----------------------------
(***************************************************************************)
(* Model of the /run handler of the Safe-Code-Executor service             *)
(* (src/app.py, run_code): validation, staging of the submitted code into  *)
(* tmp/<file_id>.py, launch of a resource-capped container through         *)
(* `docker run`, the host-side wait of 10 seconds, the forced removal      *)
(* `docker rm -f` after a timeout, and the classification of the outcome   *)
(* into the JSON response.                                                 *)
(*                                                                         *)
(* Strings are sequences of one-character strings, so that rstrip, strip   *)
(* and the substring tests of the classification are computed as Python    *)
(* computes them.  Requests are handled concurrently (one handler per      *)
(* request); the staging directory and the container runtime are shared.   *)
(*                                                                         *)
(* Modelling assumption: uuid.uuid4().hex[:12] is drawn fresh (48 random   *)
(* bits are treated as never colliding with a token already drawn).        *)
(***************************************************************************)
EXTENDS Integers, Sequences, FiniteSets, TLC

VARIABLES
    pc,          \* pc[r]: position of the handler of request r
    code,        \* code[r]: the "code" value of the JSON body of request r
    file_id,     \* file_id[r]: the token drawn at line 29 (NoToken before)
    tmp_exists,  \* whether the staging folder tmp/ exists
    files,       \* the staging folder: set of [path, content]
    writes,      \* writes[r]: sequence of paths request r has written
    launches,    \* launches[r]: sequence of `docker run` commands issued by r
    containers,  \* the container runtime: set of existing sandbox instances
    created,     \* created[r]: number of instances created for r's launch
    clock,       \* clock[r]: seconds elapsed in the subprocess.run r is blocked in
    proc,        \* proc[r]: outcome of subprocess.run(cmd, timeout=10)
    rm_log,      \* rm_log[r]: sequence of names r asked `docker rm -f` for
    rm_result,   \* rm_result[r]: how r's `docker rm -f` ended
    responses    \* responses[r]: sequence of responses returned for r

vars == <<pc, code, file_id, tmp_exists, files, writes, launches, containers,
          created, clock, proc, rm_log, rm_result, responses>>

----------------------------------------------------------------------------
(* Bounds of the model *)

\* number of requests (handlers running concurrently)
NumReqs == 2
\* seconds of wall-clock time that one Tick advances a waiting handler
TickSeconds == 5

Reqs == 1..NumReqs
Tokens == 1..NumReqs
NoToken == 0

----------------------------------------------------------------------------
(* Program constants *)

\* A string is a sequence of text fragments.  The fixed messages of the
\* responses are one fragment each; the captured stdout and stderr, which
\* the handler trims and searches, are sequences of single characters.

MAX_CODE_LEN == 5000
RUN_TIMEOUT == 10
RM_TIMEOUT == 5
OOM_EXIT_CODE == 137

ERR_NOT_STRING == <<"code must be a string">>
ERR_TOO_LONG == <<"Code too long (max 5000 chars)">>
ERR_TIMEOUT == <<"Execution timed out after 10 seconds">>
ERR_MEMORY == <<"Memory limit exceeded (container killed)">>
EMPTY == <<>>

\* the three out-of-memory markers looked for in stderr (line 73)
Killed == <<"K", "i", "l", "l", "e", "d">>
OutOfMemory == <<"O", "u", "t", " ", "o", "f", " ", "m", "e", "m", "o", "r", "y">>
MemoryError == <<"M", "e", "m", "o", "r", "y", "E", "r", "r", "o", "r">>

----------------------------------------------------------------------------
(* Python string functions *)

\* characters removed by str.strip() with no argument
Whitespace == {" ", "\n", "\t", "\r", "\f"}

RECURSIVE RStrip(_, _)
\* s.rstrip(chars): every trailing character that is in chars is removed
RStrip(s, chars) ==
    IF s = <<>> THEN s
    ELSE IF s[Len(s)] \in chars THEN RStrip(SubSeq(s, 1, Len(s) - 1), chars)
    ELSE s

RECURSIVE LStrip(_, _)
\* s.lstrip(chars)
LStrip(s, chars) ==
    IF s = <<>> THEN s
    ELSE IF s[1] \in chars THEN LStrip(Tail(s), chars)
    ELSE s

\* (variant: only the trailing white space is removed)
StripRightOnly(s) == RStrip(s, Whitespace)

\* s.strip()
Strip(s) == LStrip(RStrip(s, Whitespace), Whitespace)

\* sub in s
Contains(sub, s) ==
    \E i \in 1..(Len(s) - Len(sub) + 1) : SubSeq(s, i, i + Len(sub) - 1) = sub

----------------------------------------------------------------------------
(* Inputs *)

\* The "code" value of a request: a JSON string of len characters whose
\* content is text, or a JSON value that is not a string.
CodeLens == {0, MAX_CODE_LEN, MAX_CODE_LEN + 1}
StrCodes == {[isstr |-> TRUE, len |-> l, text |-> "s"] : l \in CodeLens}
Codes == StrCodes \cup {[isstr |-> FALSE, len |-> 0, text |-> "json"]}
NoCode == [isstr |-> FALSE, len |-> 0, text |-> "none"]

\* What a sandbox that runs to completion hands to the waiting host:
\* exit code of `docker run`, captured stdout, captured stderr.
Outcome(rc, out, err) == [kind |-> "completed", returncode |-> rc, stdout |-> out, stderr |-> err]

S_hi == <<"h", "i">>
S_hi_nl == <<"h", "i", "\n">>
S_hi_nl_nl == <<"h", "i", "\n", "\n">>
S_sp_hi_sp_nl == <<" ", "h", "i", " ", "\n">>
S_nl_hi == <<"\n", "h", "i">>
S_err == <<"e", "r", "r">>
S_sp_err_nl == <<" ", "e", "r", "r", " ", "\n">>
S_x_Killed_nl == <<"x", "K", "i", "l", "l", "e", "d", "\n">>
S_killed == <<"k", "i", "l", "l", "e", "d">>
S_Kille == <<"K", "i", "l", "l", "e">>
S_MemoryError_x == <<"M", "e", "m", "o", "r", "y", "E", "r", "r", "o", "r", ":", "x">>
S_docker == <<"d", "o", "c", "k", "e", "r", ":", " ", "d", "o", "w", "n", "\n">>

\* exit codes: success, errors, docker's own failure (125), SIGKILL inside the
\* container (137), the docker client itself killed by a signal (-9)
ReturnCodes == {0, 1, 2, 125, OOM_EXIT_CODE, -9}
Stdouts == {EMPTY, S_hi, S_hi_nl, S_hi_nl_nl, S_sp_hi_sp_nl, S_nl_hi}
Stderrs == {EMPTY, S_err, S_sp_err_nl, Killed, S_x_Killed_nl, S_killed, S_Kille,
            OutOfMemory, S_MemoryError_x}

\* all completed executions (the inputs of the classification)
AllOutcomes == {Outcome(rc, out, err) : rc \in ReturnCodes, out \in Stdouts, err \in Stderrs}

\* the executions the concurrent specification lets a sandbox end with
SandboxOutcomes ==
    { Outcome(0, S_hi_nl, EMPTY),
      Outcome(1, S_hi_nl, S_sp_err_nl),
      Outcome(OOM_EXIT_CODE, S_hi, Killed) }

\* what `docker run` hands back when the runtime cannot create the sandbox
\* (daemon unreachable, image missing, name conflict): no user code has run
DockerFailure == Outcome(125, EMPTY, S_docker)

\* stdout the host has read from the pipe when the deadline expires
PartialStdouts == {EMPTY, S_hi}

\* how a staging attempt can fail: os.makedirs, open, f.write
StageFailures == {"makedirs", "open", "write"}

\* how `docker rm -f` can end before its own deadline: exit code 0, a
\* non-zero exit code (no exception: check is not set), OSError at spawn
RemoveEndings == {"removed", "nonzero", "spawn_error"}

----------------------------------------------------------------------------
(* Names derived from the token (lines 30, 35, 47-49) *)

\* (variant: one file name for every request)
FilePathShared(t) == [dir |-> "tmp", name |-> 0]

\* os.path.join(tmp_folder, f"{file_id}.py")
FilePath(t) == [dir |-> "tmp", name |-> t]

\* f"runpy-{file_id}"
ContainerName(t) == [prefix |-> "runpy-", id |-> t]

\* (variant: the script path does not come from the token)
ScriptPathShared(t) == [dir |-> "/scripts", name |-> 0]

\* f"/scripts/{file_id}.py"
ScriptPath(t) == [dir |-> "/scripts", name |-> t]

\* (variant: the instance is launched without --rm)
CmdNoRm(t) ==
    [ rm          |-> FALSE,
      name        |-> ContainerName(t),
      network     |-> "none",
      memory      |-> "128m",
      memory_swap |-> "128m",
      pids_limit  |-> "64",
      cpus        |-> "1",
      mount       |-> [src |-> "tmp", dst |-> "/scripts", mode |-> "ro"],
      image       |-> "python:3.11-slim",
      script      |-> ScriptPath(t) ]

\* (variant: the staging folder is mounted without :ro)
CmdWritableMount(t) ==
    [ rm          |-> TRUE,
      name        |-> ContainerName(t),
      network     |-> "none",
      memory      |-> "128m",
      memory_swap |-> "128m",
      pids_limit  |-> "64",
      cpus        |-> "1",
      mount       |-> [src |-> "tmp", dst |-> "/scripts", mode |-> "rw"],
      image       |-> "python:3.11-slim",
      script      |-> ScriptPath(t) ]

\* the `docker run` command of lines 39-50
Cmd(t) ==
    [ rm          |-> TRUE,
      name        |-> ContainerName(t),
      network     |-> "none",
      memory      |-> "128m",
      memory_swap |-> "128m",
      pids_limit  |-> "64",
      cpus        |-> "1",
      mount       |-> [src |-> "tmp", dst |-> "/scripts", mode |-> "ro"],
      image       |-> "python:3.11-slim",
      script      |-> ScriptPath(t) ]

\* the host file a path inside the sandbox resolves to through the mount
HostPath(cmd, p) ==
    IF p.dir = cmd.mount.dst THEN [dir |-> cmd.mount.src, name |-> p.name] ELSE p

\* content of the staging folder at path p ("missing" when there is none)
MissingFile == [isstr |-> FALSE, len |-> 0, text |-> "missing"]
ReadFile(fs, p) ==
    IF \E f \in fs : f.path = p
    THEN (CHOOSE f \in fs : f.path = p).content
    ELSE MissingFile

\* open(file_path, "w") ... f.write(code): creates or replaces the file
\* (variant: the content is still in the buffer when the file is used)
WriteFileUnflushed(fs, p, c) ==
    {f \in fs : f.path # p} \cup
        {[path |-> p, content |-> [isstr |-> TRUE, len |-> 0, text |-> "truncated"]]}

\* (variant: the staging folder is emptied before each write)
WriteFileClearsFolder(fs, p, c) == {[path |-> p, content |-> c]}

WriteFile(fs, p, c) == {f \in fs : f.path # p} \cup {[path |-> p, content |-> c]}

----------------------------------------------------------------------------
(* Validation (lines 19-22) *)

NotString(c) == ~c.isstr

\* (variant: the length test off by one)
TooLongOffByOne(c) == c.len > MAX_CODE_LEN + 1

TooLong(c) == c.len > MAX_CODE_LEN

Response(status, body) == [status |-> status, body |-> body]

\* jsonify({"error": ...}), 400
NotStringResponse == Response(400, [error |-> ERR_NOT_STRING])
TooLongResponse == Response(400, [error |-> ERR_TOO_LONG])

\* (variant: a blanket handler turns the exception into an empty 200 answer)
InternalErrorSwallowed == Response(200, [output |-> EMPTY, error |-> EMPTY])

\* an exception that leaves run_code: Flask answers 500
InternalError == Response(500, [html |-> "Internal Server Error"])

----------------------------------------------------------------------------
(* Classification of the outcome (lines 62-81) *)

\* (variant: the stdout carried by TimeoutExpired is returned)
TimeoutResponseWithStdout(p) == Response(200, [output |-> p.stdout, error |-> ERR_TIMEOUT])

\* line 62
TimeoutResponse(p) == Response(200, [output |-> EMPTY, error |-> ERR_TIMEOUT])

\* (variant: the "Out of memory" marker is not looked for)
MemoryLimitHitTwoMarkers(rc, stderr) ==
    \/ rc = OOM_EXIT_CODE
    \/ Contains(Killed, stderr)
    \/ Contains(MemoryError, stderr)

\* the condition of line 73
MemoryLimitHit(rc, stderr) ==
    \/ rc = OOM_EXIT_CODE
    \/ Contains(Killed, stderr)
    \/ Contains(OutOfMemory, stderr)
    \/ Contains(MemoryError, stderr)

\* (variant: stdout.strip())
OutputStripped(stdout) == Strip(stdout)

\* stdout.rstrip("\n")
Output(stdout) == RStrip(stdout, {"\n"})

\* lines 69-81
\* (variant: the marker test comes before the test of the exit code)
ClassifyResponseMarkerFirst(rc, stdout, stderr) ==
    IF MemoryLimitHit(rc, stderr)
    THEN Response(200, [output |-> Output(stdout), error |-> ERR_MEMORY])
    ELSE IF rc = 0
    THEN Response(200, [output |-> Output(stdout), error |-> EMPTY])
    ELSE Response(200, [output |-> Output(stdout), error |-> Strip(stderr),
                        exit_code |-> rc])

\* (variant: every non-zero exit code is reported)
ClassifyResponseExitCodeKept(rc, stdout, stderr) ==
    IF rc = 0
    THEN Response(200, [output |-> Output(stdout), error |-> EMPTY])
    ELSE IF MemoryLimitHit(rc, stderr)
    THEN Response(200, [output |-> Output(stdout), error |-> ERR_MEMORY,
                        exit_code |-> rc])
    ELSE Response(200, [output |-> Output(stdout), error |-> Strip(stderr),
                        exit_code |-> rc])

ClassifyResponse(rc, stdout, stderr) ==
    IF rc = 0
    THEN Response(200, [output |-> Output(stdout), error |-> EMPTY])
    ELSE IF MemoryLimitHit(rc, stderr)
    THEN Response(200, [output |-> Output(stdout), error |-> ERR_MEMORY])
    ELSE Response(200, [output |-> Output(stdout), error |-> Strip(stderr),
                        exit_code |-> rc])

\* `except Exception: pass` (lines 60-61): which endings of the removal that
\* raise (TimeoutExpired, OSError) are swallowed
Raises(res) == res \in {"timeout", "spawn_error"}
\* (variant: `except subprocess.TimeoutExpired: pass`)
SwallowedTimeoutOnly(res) == res = "timeout"

Swallowed(res) == Raises(res)

----------------------------------------------------------------------------
(* Initial state: no request has arrived, tmp/ may or may not exist yet *)

Init ==
    /\ pc = [r \in Reqs |-> "idle"]
    /\ code = [r \in Reqs |-> NoCode]
    /\ file_id = [r \in Reqs |-> NoToken]
    /\ tmp_exists \in BOOLEAN
    /\ files = {}
    /\ writes = [r \in Reqs |-> <<>>]
    /\ launches = [r \in Reqs |-> <<>>]
    /\ containers = {}
    /\ created = [r \in Reqs |-> 0]
    /\ clock = [r \in Reqs |-> 0]
    /\ proc = [r \in Reqs |-> <<>>]
    /\ rm_log = [r \in Reqs |-> <<>>]
    /\ rm_result = [r \in Reqs |-> "none"]
    /\ responses = [r \in Reqs |-> <<>>]

\* tokens already drawn by some request
UsedTokens == {file_id[r] : r \in Reqs} \ {NoToken}

\* uuid.uuid4().hex[:12] drawn by request r: the tokens the draw can return.
\* A token is an opaque value that only ever serves as a name, so the model
\* names each token after the request that draws it; a token already drawn
\* is not drawn again.
NewTokens(r) == {t \in Tokens \ UsedTokens : t = r}

\* the sandbox instances created by request r's `docker run`
InstancesOf(r) == {c \in containers : c.client = r}

Min(a, b) == IF a < b THEN a ELSE b

\* the handler returns resp
Return(r, resp) ==
    /\ responses' = [responses EXCEPT ![r] = Append(@, resp)]
    /\ pc' = [pc EXCEPT ![r] = "done"]

----------------------------------------------------------------------------
(* The handler run_code, one action per step between two side effects *)

\* lines 15-22: the request arrives with code c and is validated.
\* Requests are numbered in their order of arrival.
Request(r, c) ==
    /\ pc[r] = "idle"
    /\ r > 1 => pc[r - 1] # "idle"
    /\ code' = [code EXCEPT ![r] = c]
    /\ IF NotString(c) THEN Return(r, NotStringResponse)
       ELSE IF TooLong(c) THEN Return(r, TooLongResponse)
       ELSE /\ pc' = [pc EXCEPT ![r] = "staging"]
            /\ UNCHANGED responses
    /\ UNCHANGED <<file_id, tmp_exists, files, writes, launches, containers,
                   created, clock, proc, rm_log, rm_result>>

\* lines 24-35: tmp/ is created if absent, a token is drawn, the code is
\* written to tmp/<token>.py and the file is closed
Stage(r) ==
    /\ pc[r] = "staging"
    /\ \E t \in NewTokens(r) :
        /\ file_id' = [file_id EXCEPT ![r] = t]
        /\ files' = WriteFile(files, FilePath(t), code[r])
        /\ writes' = [writes EXCEPT ![r] = Append(@, FilePath(t))]
    /\ tmp_exists' = TRUE
    /\ pc' = [pc EXCEPT ![r] = "launching"]
    /\ UNCHANGED <<code, launches, containers, created, clock, proc, rm_log,
                   rm_result, responses>>

\* lines 26-32 raise (OSError, UnicodeEncodeError): nothing catches it
StageFail(r, how) ==
    /\ pc[r] = "staging"
    /\ \/ /\ how = "makedirs"
          /\ ~tmp_exists
          /\ UNCHANGED <<tmp_exists, file_id, files>>
       \/ /\ how = "open"
          /\ tmp_exists' = TRUE
          /\ \E t \in NewTokens(r) : file_id' = [file_id EXCEPT ![r] = t]
          /\ UNCHANGED files
       \/ /\ how = "write"
          /\ tmp_exists' = TRUE
          /\ \E t \in NewTokens(r) :
              /\ file_id' = [file_id EXCEPT ![r] = t]
              /\ files' = WriteFile(files, FilePath(t),
                                    [isstr |-> TRUE, len |-> 0, text |-> "truncated"])
    /\ Return(r, InternalError)
    /\ UNCHANGED <<code, writes, launches, containers, created, clock, proc,
                   rm_log, rm_result>>

\* lines 39-54: subprocess.run starts `docker run ...` and begins to wait
Launch(r) ==
    /\ pc[r] = "launching"
    /\ launches' = [launches EXCEPT ![r] = Append(@, Cmd(file_id[r]))]
    /\ clock' = [clock EXCEPT ![r] = 0]
    /\ pc' = [pc EXCEPT ![r] = "waiting"]
    /\ UNCHANGED <<code, file_id, tmp_exists, files, writes, containers,
                   created, proc, rm_log, rm_result, responses>>

\* line 54: the docker client cannot be started (OSError leaves run_code)
LaunchSpawnFail(r) ==
    /\ pc[r] = "launching"
    /\ Return(r, InternalError)
    /\ UNCHANGED <<code, file_id, tmp_exists, files, writes, launches,
                   containers, created, clock, proc, rm_log, rm_result>>

\* time passes while the handler is blocked in subprocess.run
Tick(r) ==
    /\ \/ pc[r] = "waiting" /\ clock[r] < RUN_TIMEOUT
          /\ clock' = [clock EXCEPT ![r] = Min(@ + TickSeconds, RUN_TIMEOUT)]
       \/ pc[r] = "removing" /\ clock[r] < RM_TIMEOUT
          /\ clock' = [clock EXCEPT ![r] = Min(@ + TickSeconds, RM_TIMEOUT)]
    /\ UNCHANGED <<pc, code, file_id, tmp_exists, files, writes, launches,
                   containers, created, proc, rm_log, rm_result, responses>>

\* (variant: subprocess.run without timeout)
RunDeadlineNever(c) == FALSE

\* (variant: the wait is given the 5 seconds of the removal)
RunDeadlineAtRemoveTimeout(c) == c >= RM_TIMEOUT

\* timeout=10 of line 54
RunDeadlineReached(c) == c >= RUN_TIMEOUT

\* (variant: the removal names the first request's sandbox)
RemoveTargetShared(r) == ContainerName(1)

\* the name the forced removal is asked for (container_name, line 58)
RemoveTarget(r) == ContainerName(file_id[r])

\* lines 55-59: the wait has lasted 10 seconds, subprocess.run kills the
\* docker client and raises TimeoutExpired carrying the stdout read so far;
\* the handler starts subprocess.run(["docker", "rm", "-f", container_name],
\* timeout=5)
Deadline(r) ==
    /\ pc[r] = "waiting"
    /\ RunDeadlineReached(clock[r])
    /\ \E part \in PartialStdouts :
        /\ part # EMPTY => InstancesOf(r) # {}
        /\ proc' = [proc EXCEPT ![r] = <<[kind |-> "expired", stdout |-> part]>>]
    /\ rm_log' = [rm_log EXCEPT ![r] = Append(@, RemoveTarget(r))]
    /\ clock' = [clock EXCEPT ![r] = 0]
    /\ pc' = [pc EXCEPT ![r] = "removing"]
    /\ UNCHANGED <<code, file_id, tmp_exists, files, writes, launches,
                   containers, created, rm_result, responses>>

\* lines 57-62: the removal has ended with res; an exception it raised is
\* swallowed and the handler returns the timeout response (an exception
\* that is not swallowed leaves run_code)
AfterRemove(r, res) ==
    /\ rm_result' = [rm_result EXCEPT ![r] = res]
    /\ clock' = [clock EXCEPT ![r] = 0]
    /\ IF Raises(res) /\ ~Swallowed(res)
       THEN Return(r, InternalError)
       ELSE Return(r, TimeoutResponse(proc[r][1]))

\* `docker rm -f` ends before its deadline
RemoveEnds(r, res) ==
    /\ pc[r] = "removing"
    /\ IF res = "removed"
       THEN /\ \E c \in containers : c.name = rm_log[r][Len(rm_log[r])]
            /\ containers' = {c \in containers : c.name # rm_log[r][Len(rm_log[r])]}
       ELSE UNCHANGED containers
    /\ AfterRemove(r, res)
    /\ UNCHANGED <<code, file_id, tmp_exists, files, writes, launches,
                   created, proc, rm_log>>

\* timeout=5 of line 59
RemoveDeadlineReached(c) == c >= RM_TIMEOUT

\* `docker rm -f` has lasted 5 seconds: TimeoutExpired
RemoveDeadline(r) ==
    /\ pc[r] = "removing"
    /\ RemoveDeadlineReached(clock[r])
    /\ AfterRemove(r, "timeout")
    /\ UNCHANGED <<code, file_id, tmp_exists, files, writes, launches,
                   containers, created, proc, rm_log>>

\* lines 64-81: subprocess.run has returned, the outcome is classified
Classify(r) ==
    /\ pc[r] = "completed"
    /\ Return(r, ClassifyResponse(proc[r][1].returncode, proc[r][1].stdout,
                                  proc[r][1].stderr))
    /\ UNCHANGED <<code, file_id, tmp_exists, files, writes, launches,
                   containers, created, clock, proc, rm_log, rm_result>>

----------------------------------------------------------------------------
(* The container runtime (external collaborator) *)

\* the runtime creates the sandbox instance the command describes; the
\* interpreter reads the script through the mount
ContainerStart(r) ==
    /\ pc[r] = "waiting"
    /\ created[r] = 0
    /\ LET cmd == launches[r][Len(launches[r])] IN
        /\ \A c \in containers : c.name # cmd.name
        /\ containers' = containers \cup
              {[name |-> cmd.name, cmd |-> cmd, client |-> r,
                ran |-> ReadFile(files, HostPath(cmd, cmd.script))]}
    /\ created' = [created EXCEPT ![r] = @ + 1]
    /\ UNCHANGED <<pc, code, file_id, tmp_exists, files, writes, launches,
                   clock, proc, rm_log, rm_result, responses>>

\* the runtime cannot create the instance: `docker run` exits by itself
RuntimeReject(r) ==
    /\ pc[r] = "waiting"
    /\ created[r] = 0
    /\ proc' = [proc EXCEPT ![r] = <<DockerFailure>>]
    /\ clock' = [clock EXCEPT ![r] = 0]
    /\ pc' = [pc EXCEPT ![r] = "completed"]
    /\ UNCHANGED <<code, file_id, tmp_exists, files, writes, launches,
                   containers, created, rm_log, rm_result, responses>>

\* the program in the sandbox ends while the host waits: --rm removes the
\* instance and subprocess.run returns the outcome o
SandboxExit(r, o) ==
    /\ pc[r] = "waiting"
    /\ InstancesOf(r) # {}
    /\ containers' = containers \ {c \in InstancesOf(r) : c.cmd.rm}
    /\ proc' = [proc EXCEPT ![r] = <<o>>]
    /\ clock' = [clock EXCEPT ![r] = 0]
    /\ pc' = [pc EXCEPT ![r] = "completed"]
    /\ UNCHANGED <<code, file_id, tmp_exists, files, writes, launches,
                   created, rm_log, rm_result, responses>>

\* An instance whose host has stopped waiting stays in the runtime until a
\* forced removal succeeds: a program that overruns the deadline is taken to
\* run on.

----------------------------------------------------------------------------
(* Specifications *)

Next ==
    \E r \in Reqs :
        \/ \E c \in Codes : Request(r, c)
        \/ Stage(r)
        \/ \E how \in StageFailures : StageFail(r, how)
        \/ Launch(r)
        \/ LaunchSpawnFail(r)
        \/ Tick(r)
        \/ Deadline(r)
        \/ \E res \in RemoveEndings : RemoveEnds(r, res)
        \/ RemoveDeadline(r)
        \/ Classify(r)
        \/ ContainerStart(r)
        \/ RuntimeReject(r)
        \/ \E o \in SandboxOutcomes : SandboxExit(r, o)

Spec == Init /\ [][Next]_vars

\* The handler's own steps always proceed and time passes; the arrival of
\* requests and the container runtime's answers are not forced.
HandlerStep(r) ==
    \/ Stage(r)
    \/ Launch(r)
    \/ Tick(r)
    \/ Deadline(r)
    \/ RemoveDeadline(r)
    \/ Classify(r)

FairSpec == Spec /\ \A r \in Reqs : WF_vars(HandlerStep(r))

\* The classification alone: one handler whose subprocess.run has just
\* returned, with every exit code, stdout and stderr of the input sets.
ClassifyInit ==
    /\ \E o \in AllOutcomes :
        proc = [r \in Reqs |-> IF r = 1 THEN <<o>> ELSE <<>>]
    /\ pc = [r \in Reqs |-> IF r = 1 THEN "completed" ELSE "idle"]
    /\ code = [r \in Reqs |-> IF r = 1 THEN [isstr |-> TRUE, len |-> MAX_CODE_LEN, text |-> "s"]
                              ELSE NoCode]
    /\ file_id = [r \in Reqs |-> IF r = 1 THEN 1 ELSE NoToken]
    /\ tmp_exists = TRUE
    /\ files = {[path |-> FilePath(1), content |-> code[1]]}
    /\ writes = [r \in Reqs |-> IF r = 1 THEN <<FilePath(1)>> ELSE <<>>]
    /\ launches = [r \in Reqs |-> IF r = 1 THEN <<Cmd(1)>> ELSE <<>>]
    /\ containers = {}
    /\ created = [r \in Reqs |-> IF r = 1 THEN 1 ELSE 0]
    /\ clock = [r \in Reqs |-> 0]
    /\ rm_log = [r \in Reqs |-> <<>>]
    /\ rm_result = [r \in Reqs |-> "none"]
    /\ responses = [r \in Reqs |-> <<>>]

ClassifyNext == \E r \in Reqs : Classify(r)

ClassifySpec == ClassifyInit /\ [][ClassifyNext]_vars

----------------------------------------------------------------------------
(* Vocabulary of the claims, defined independently of the handler's code *)

\* s without its trailing newline characters
TrimTrailingNewlines(s) ==
    LET keep == {i \in 1..Len(s) : s[i] # "\n"}
        last == IF keep = {} THEN 0 ELSE CHOOSE i \in keep : \A j \in keep : j <= i
    IN SubSeq(s, 1, last)

\* s without one trailing newline character, when it ends with one
TrimOneTrailingNewline(s) ==
    IF Len(s) > 0 /\ s[Len(s)] = "\n" THEN SubSeq(s, 1, Len(s) - 1) ELSE s

\* s without leading and trailing white space
Trimmed(s) ==
    LET keep  == {i \in 1..Len(s) : s[i] \notin {" ", "\n", "\t", "\r", "\f"}}
        first == IF keep = {} THEN 1 ELSE CHOOSE i \in keep : \A j \in keep : i <= j
        last  == IF keep = {} THEN 0 ELSE CHOOSE i \in keep : \A j \in keep : j <= i
    IN SubSeq(s, first, last)

\* stderr contains one of the out-of-memory markers
HasOomMarker(stderr) ==
    \E m \in {Killed, OutOfMemory, MemoryError} :
        \E i \in 1..Len(stderr) : \E j \in i..Len(stderr) : SubSeq(stderr, i, j) = m

\* the classification a response carries
Classification(resp) ==
    IF resp.status = 400 THEN "Rejected"
    ELSE IF resp.status # 200 THEN "InternalError"
    ELSE IF "exit_code" \in DOMAIN resp.body THEN "RuntimeError"
    ELSE IF resp.body.error = <<>> THEN "Success"
    ELSE IF resp.body.error = <<"Memory limit exceeded (container killed)">>
         THEN "MemoryLimitExceeded"
    ELSE IF resp.body.error = <<"Execution timed out after 10 seconds">>
         THEN "Timeout"
    ELSE "Other"

ExecutionClasses == {"Success", "Timeout", "MemoryLimitExceeded", "RuntimeError"}

Submitted(r) == pc[r] # "idle"
Invalid(r) == Submitted(r) /\ (~code[r].isstr \/ code[r].len > 5000)
Accepted(r) == Submitted(r) /\ code[r].isstr /\ code[r].len <= 5000
Done(r) == pc[r] = "done"
Completed(r) == proc[r] # <<>> /\ proc[r][1].kind = "completed"
Expired(r) == proc[r] # <<>> /\ proc[r][1].kind = "expired"
TheResponse(r) == responses[r][1]

\* the response of the timeout outcome: output "", fixed message, no exit code
TimeoutResult ==
    [status |-> 200,
     body |-> [output |-> <<>>, error |-> <<"Execution timed out after 10 seconds">>]]

----------------------------------------------------------------------------
(* C1 .. C10 *)

\* C1: a request whose code is not a string or is longer than 5000
\* characters is answered with a client error (400) and has had no side
\* effect: it drew no token, wrote no file, launched no sandbox and asked for
\* no removal; a string of at most 5000 characters is never answered 400 and
\* goes on to staging.
C1_ValidationBeforeSideEffects ==
    \A r \in Reqs :
        /\ Invalid(r) =>
            /\ Done(r)
            /\ Len(responses[r]) = 1
            /\ TheResponse(r).status = 400
            /\ file_id[r] = NoToken
            /\ writes[r] = <<>>
            /\ launches[r] = <<>>
            /\ created[r] = 0
            /\ rm_log[r] = <<>>
            /\ InstancesOf(r) = {}
        /\ Accepted(r) =>
            /\ \A i \in 1..Len(responses[r]) : responses[r][i].status # 400
            /\ pc[r] \in {"staging", "launching", "waiting", "completed", "removing", "done"}
            /\ pc[r] \in {"launching", "waiting", "completed", "removing"} => writes[r] # <<>>
        /\ (\A q \in Reqs : Submitted(q) => Invalid(q)) => files = {} /\ containers = {}

\* C1 witness: a code of 5001 characters has been rejected and a code of
\* exactly 5000 characters has been staged
C1_Witness ==
    \E r, q \in Reqs :
        /\ Invalid(r) /\ code[r].isstr /\ code[r].len = 5001 /\ Done(r)
        /\ Accepted(q) /\ code[q].len = 5000 /\ writes[q] # <<>>

\* C2: once the wait on the sandbox has exceeded the deadline, exactly one
\* forced removal has been asked for, it names the sandbox this same request
\* launched, no instance of another request carries that name, and the
\* response the request returns is the timeout result with output "" and no
\* exit code.
C2_TimeoutRemovesOwnSandboxOnce ==
    \A r \in Reqs :
        Expired(r) =>
            /\ Len(rm_log[r]) = 1
            /\ Len(launches[r]) = 1
            /\ rm_log[r][1] = launches[r][1].name
            /\ \A q \in Reqs \ {r} :
                  /\ launches[q] # <<>> => launches[q][1].name # rm_log[r][1]
                  /\ \A c \in InstancesOf(q) : c.name # rm_log[r][1]
            /\ Done(r) =>
                  /\ Len(responses[r]) = 1
                  /\ TheResponse(r).body.output = <<>>
                  /\ "exit_code" \notin DOMAIN TheResponse(r).body
                  /\ Classification(TheResponse(r)) = "Timeout"

\* C2 witness: two requests have timed out, one of them with stdout already
\* captured, and both have returned
C2_Witness ==
    \E r, q \in Reqs :
        /\ r # q
        /\ Expired(r) /\ Done(r) /\ proc[r][1].stdout # <<>>
        /\ Expired(q) /\ Done(q)

\* C3: after the deadline has expired the request returns the same timeout
\* result whether the forced removal succeeded, ended with an error, could not
\* be started or timed out itself; it never ends in an internal error.
C3_CleanupFailureSwallowed ==
    \A r \in Reqs :
        rm_result[r] # "none" =>
            /\ rm_result[r] \in {"removed", "nonzero", "spawn_error", "timeout"}
            /\ Done(r)
            /\ responses[r] = <<TimeoutResult>>

\* C3 witness: one request whose removal could not be started and one whose
\* removal timed out have both returned
C3_Witness ==
    \E r, q \in Reqs :
        /\ rm_result[r] = "spawn_error" /\ Done(r)
        /\ rm_result[q] = "timeout" /\ Done(q)

\* C4: every accepted request eventually returns, whatever the sandbox and
\* the forced removal do, and a request never has more than one response
\* (exactly one once it has returned).
C4_AcceptedRequestTerminates ==
    /\ \A r \in Reqs : (Accepted(r) ~> (Done(r) /\ Len(responses[r]) = 1))
    /\ [](\A r \in Reqs : /\ Len(responses[r]) <= 1
                          /\ Done(r) <=> Len(responses[r]) = 1
                          /\ clock[r] <= 10)

\* C4 witness: a request has returned although its sandbox never completed
\* (the instance still exists) and the forced removal timed out
C4_Witness ==
    \E r \in Reqs :
        /\ Done(r) /\ Expired(r) /\ rm_result[r] = "timeout"
        /\ InstancesOf(r) # {}

\* C5 as stated: every completed execution with a non-zero exit code other
\* than 137 is answered as a RuntimeError (error = trimmed stderr, exit_code =
\* the exit code, stdout kept as output).
C5_Original_NonZeroIsRuntimeError ==
    \A r \in Reqs :
        (Done(r) /\ Completed(r) /\ proc[r][1].returncode \notin {0, 137}) =>
            /\ Classification(TheResponse(r)) = "RuntimeError"
            /\ TheResponse(r).body.error = Trimmed(proc[r][1].stderr)
            /\ TheResponse(r).body.exit_code = proc[r][1].returncode
            /\ TheResponse(r).body.output = TrimTrailingNewlines(proc[r][1].stdout)

\* C5, amended: every completed execution with a non-zero exit code other
\* than 137 whose stderr contains none of the out-of-memory markers is
\* answered as a RuntimeError: error is stderr without leading and trailing
\* white space, exit_code is the exit code, output is stdout without its
\* trailing newlines.
C5_RuntimeError ==
    \A r \in Reqs :
        (Done(r) /\ Completed(r) /\ proc[r][1].returncode \notin {0, 137}
                 /\ ~HasOomMarker(proc[r][1].stderr)) =>
            responses[r] =
                <<[status |-> 200,
                   body |-> [output |-> TrimTrailingNewlines(proc[r][1].stdout),
                             error |-> Trimmed(proc[r][1].stderr),
                             exit_code |-> proc[r][1].returncode]]>>

\* C5 witness: exit code 1 with stderr " err \n" and stdout "hi\n" has been
\* answered with error "err", exit_code 1 and output "hi"
C5_Witness ==
    \E r \in Reqs :
        /\ Done(r) /\ Completed(r)
        /\ proc[r][1].returncode = 1
        /\ proc[r][1].stderr = <<" ", "e", "r", "r", " ", "\n">>
        /\ proc[r][1].stdout = <<"h", "i", "\n">>
        /\ TheResponse(r).body.error = <<"e", "r", "r">>
        /\ TheResponse(r).body.exit_code = 1
        /\ TheResponse(r).body.output = <<"h", "i">>

\* C6: every completed execution whose exit code is 137, or whose exit code
\* is not 0 and whose stderr contains "Killed", "Out of memory" or
\* "MemoryError", is answered as MemoryLimitExceeded: error is the fixed
\* message whatever stderr holds, output is stdout (trailing newlines trimmed
\* as for every outcome), and there is no exit_code.
C6_MemoryLimitExceeded ==
    \A r \in Reqs :
        (Done(r) /\ Completed(r)
           /\ \/ proc[r][1].returncode = 137
              \/ proc[r][1].returncode # 0 /\ HasOomMarker(proc[r][1].stderr)) =>
            responses[r] =
                <<[status |-> 200,
                   body |-> [output |-> TrimTrailingNewlines(proc[r][1].stdout),
                             error |-> <<"Memory limit exceeded (container killed)">>]]>>

\* C6 witness: exit code 1 with "Out of memory" in stderr and stdout "hi" has
\* been answered as MemoryLimitExceeded with output "hi"
C6_Witness ==
    \E r \in Reqs :
        /\ Done(r) /\ Completed(r)
        /\ proc[r][1].returncode = 1
        /\ proc[r][1].stderr = OutOfMemory
        /\ proc[r][1].stdout = <<"h", "i">>
        /\ Classification(TheResponse(r)) = "MemoryLimitExceeded"
        /\ TheResponse(r).body.output = <<"h", "i">>

\* C7 as stated: exit code 0 is answered as Success with stdout returned
\* verbatim but for the (one) trailing newline, error empty, no exit_code.
C7_Original_OneNewlineTrimmed ==
    \A r \in Reqs :
        (Done(r) /\ Completed(r) /\ proc[r][1].returncode = 0) =>
            responses[r] =
                <<[status |-> 200,
                   body |-> [output |-> TrimOneTrailingNewline(proc[r][1].stdout),
                             error |-> <<>>]]>>

\* C7, amended: exit code 0 is answered as Success: output is stdout with
\* all of its trailing newline characters removed and nothing else changed,
\* error is empty, and there is no exit_code (whatever stderr holds).
C7_Success ==
    \A r \in Reqs :
        (Done(r) /\ Completed(r) /\ proc[r][1].returncode = 0) =>
            responses[r] =
                <<[status |-> 200,
                   body |-> [output |-> TrimTrailingNewlines(proc[r][1].stdout),
                             error |-> <<>>]]>>

\* C7 witness: exit code 0 with stdout "hi\n\n" has been answered with
\* output "hi"
C7_Witness ==
    \E r \in Reqs :
        /\ Done(r) /\ Completed(r)
        /\ proc[r][1].returncode = 0
        /\ proc[r][1].stdout = <<"h", "i", "\n", "\n">>
        /\ TheResponse(r).body.output = <<"h", "i">>
        /\ Classification(TheResponse(r)) = "Success"

\* C8: any two requests that have staged their code have different tokens,
\* different artifact files and different sandbox names; the artifact of
\* each still holds that request's own code, every sandbox instance has read
\* the code of the request that launched it, and two requests whose
\* executions ended alike have been answered alike.
C8_RequestsDoNotInterfere ==
    /\ \A r, q \in Reqs :
          (r # q /\ writes[r] # <<>> /\ writes[q] # <<>>) =>
              /\ file_id[r] # file_id[q]
              /\ writes[r][1] # writes[q][1]
              /\ (launches[r] # <<>> /\ launches[q] # <<>>) =>
                    /\ launches[r][1].name # launches[q][1].name
                    /\ launches[r][1].script # launches[q][1].script
    /\ \A r \in Reqs :
          writes[r] # <<>> =>
              \E f \in files : f.path = writes[r][1] /\ f.content = code[r]
    /\ \A c \in containers : c.ran = code[c.client]
    /\ \A r, q \in Reqs :
          (Done(r) /\ Done(q) /\ proc[r] # <<>> /\ proc[r] = proc[q]) =>
              responses[r] = responses[q]

\* C8 witness: two requests with the same code and two different artifacts
\* have their two sandboxes running at once
C8_Witness ==
    \E r, q \in Reqs :
        /\ r # q /\ code[r] = code[q]
        /\ writes[r] # <<>> /\ writes[q] # <<>>
        /\ InstancesOf(r) # {} /\ InstancesOf(q) # {}

C10_LaunchFailureIsInternalError ==
    \A r \in Reqs :
        (Done(r) /\ launches[r] # <<>> /\ created[r] = 0) =>
            /\ TheResponse(r).status = 500
            /\ Classification(TheResponse(r)) \notin ExecutionClasses

----------------------------------------------------------------------------
(* C11 .. C19 *)

\* the artifact file of request r, if its staging created one
ArtifactsOf(r) == {f \in files : file_id[r] # NoToken /\ f.path = [dir |-> "tmp", name |-> file_id[r]]}

\* the request's staging raised: it has returned without a completed write
StagingFailed(r) == Accepted(r) /\ Done(r) /\ writes[r] = <<>>

\* C11: a request whose staging fails with an I/O error ends in an internal
\* error (500), which is none of the execution outcomes: it has launched no
\* sandbox, no instance exists for it, it has asked for no removal and it has
\* run no subprocess at all.
C11_StagingFailureIsInternalError ==
    \A r \in Reqs :
        StagingFailed(r) =>
            /\ Len(responses[r]) = 1
            /\ TheResponse(r).status = 500
            /\ Classification(TheResponse(r)) \notin ExecutionClasses
            /\ "output" \notin DOMAIN TheResponse(r).body
            /\ launches[r] = <<>>
            /\ created[r] = 0
            /\ InstancesOf(r) = {}
            /\ proc[r] = <<>>
            /\ rm_log[r] = <<>>
            /\ rm_result[r] = "none"

\* C11 witness: a request whose write failed after the file had been created
\* has returned
C11_Witness ==
    \E r \in Reqs :
        /\ StagingFailed(r)
        /\ \E f \in ArtifactsOf(r) : f.content # code[r]

\* C12: every launch issued and every sandbox instance that exists carries
\* no network, a memory cap with the swap limit equal to it, a process-count
\* cap, a CPU cap and the staging folder mounted read-only; the instance's
\* configuration is the one its launch fixed, and no instance can write to
\* the staging folder.
C12_SandboxIsConfined ==
    LET Confined(cmd) ==
            /\ cmd.network = "none"
            /\ cmd.memory = "128m"
            /\ cmd.memory_swap = cmd.memory
            /\ cmd.pids_limit = "64"
            /\ cmd.cpus = "1"
            /\ cmd.mount.src = "tmp"
            /\ cmd.mount.mode = "ro"
    IN /\ \A r \in Reqs : \A i \in 1..Len(launches[r]) : Confined(launches[r][i])
       /\ \A c \in containers :
             /\ Confined(c.cmd)
             /\ c.cmd = launches[c.client][1]
             /\ c.cmd.mount.mode # "rw"

\* C12 witness: two sandbox instances exist at once
C12_Witness ==
    \E c, d \in containers : c # d /\ c.cmd.mount.mode = "ro" /\ d.cmd.network = "none"

\* C13 as stated: the timeout result carries the stdout captured before the
\* deadline.
C13_Original_TimeoutCarriesStdout ==
    \A r \in Reqs :
        (Expired(r) /\ Done(r)) => TheResponse(r).body.output = proc[r][1].stdout

\* C13, amended: the timeout result carries the empty output whatever
\* stdout the host had captured before the deadline.
C13_TimeoutOutputEmpty ==
    \A r \in Reqs :
        (Expired(r) /\ Done(r)) =>
            /\ TheResponse(r).status = 200
            /\ TheResponse(r).body.output = <<>>

\* C13 witness: a request that had captured "hi" before the deadline has
\* returned the empty output
C13_Witness ==
    \E r \in Reqs :
        /\ Expired(r) /\ Done(r)
        /\ proc[r][1].stdout = <<"h", "i">>
        /\ TheResponse(r).body.output = <<>>

\* C14: a removal is issued only by a request that is waiting, has no
\* completed process and whose wait has lasted the 10 seconds of the
\* deadline; a request whose sandbox completed, with any exit code, has
\* issued none, and no request issues more than one.
C14_RemovalOnlyAfterDeadline ==
    /\ [](\A r \in Reqs :
            /\ Len(rm_log[r]) <= 1
            /\ rm_log[r] # <<>> => Expired(r)
            /\ rm_result[r] # "none" => rm_log[r] # <<>>
            /\ Completed(r) => (rm_log[r] = <<>> /\ rm_result[r] = "none"))
    /\ [][\A r \in Reqs :
            rm_log'[r] # rm_log[r] =>
                /\ pc[r] = "waiting"
                /\ proc[r] = <<>>
                /\ clock[r] >= 10
                /\ rm_log[r] = <<>>]_vars

\* C14 witness: one request has returned a non-zero exit code without any
\* removal, another has expired and issued its one removal
C14_Witness ==
    \E r, q \in Reqs :
        /\ Completed(r) /\ Done(r)
        /\ proc[r][1].returncode # 0
        /\ rm_log[r] = <<>>
        /\ Expired(q)
        /\ Len(rm_log[q]) = 1

\* position of a step in the order stage -> launch -> wait -> classify
StepRank(p) ==
    CASE p = "idle" -> 0
      [] p = "staging" -> 1
      [] p = "launching" -> 2
      [] p = "waiting" -> 3
      [] p \in {"completed", "removing"} -> 4
      [] p = "done" -> 5

\* the artifact of request r is written and closed with the submitted code
ArtifactComplete(r) ==
    /\ writes[r] # <<>>
    /\ \E f \in files : f.path = writes[r][1] /\ f.content = code[r]

\* C15: a request only moves forward through stage, launch, wait and
\* classify; its sandbox is launched only when its artifact holds the whole
\* submitted code, which is what the sandbox reads; and a result is
\* returned only when the sandbox has completed or the deadline has expired.
C15_StepsStrictlyOrdered ==
    /\ [](\A r \in Reqs :
            /\ launches[r] # <<>> => ArtifactComplete(r)
            /\ \A c \in InstancesOf(r) : c.ran = code[r]
            /\ created[r] > 0 => launches[r] # <<>>
            /\ proc[r] # <<>> => launches[r] # <<>>
            /\ (Done(r) /\ TheResponse(r).status = 200) => (Completed(r) \/ Expired(r)))
    /\ [][\A r \in Reqs :
            /\ pc'[r] # pc[r] => StepRank(pc'[r]) > StepRank(pc[r])
            /\ launches'[r] # launches[r] => (pc[r] = "launching" /\ ArtifactComplete(r))
            /\ proc'[r] # proc[r] => pc[r] = "waiting"
            /\ (responses'[r] # responses[r] /\ responses'[r][1].status = 200) =>
                    (Completed(r) \/ Expired(r))]_vars

\* C15 witness: a sandbox is running the complete artifact while its request
\* waits, and another request has returned a classified result
C15_Witness ==
    \E r, q \in Reqs :
        /\ pc[r] = "waiting"
        /\ \E c \in InstancesOf(r) : c.ran = code[r]
        /\ Done(q) /\ Completed(q)

\* the files a failed write left behind
StrayFiles == {f \in files : f.content.text = "truncated"}

\* requests whose staging completed
Staged == {r \in Reqs : writes[r] # <<>>}

\* C16 as stated: the number of files in the staging folder equals the
\* number of requests that were staged.
C16_Original_ArtifactCountIsStagedCount ==
    Cardinality(files) = Cardinality(Staged)

\* C16, amended: each artifact is written once and no file is ever modified
\* or deleted; a request with an execution outcome still has its artifact
\* with the submitted code; the files other than those left by failed writes
\* are as many as the staged requests.
C16_ArtifactsAreKept ==
    /\ [](\A r \in Reqs :
            /\ Len(writes[r]) <= 1
            /\ r \in Staged => ArtifactComplete(r)
            /\ (Done(r) /\ Classification(TheResponse(r)) \in ExecutionClasses) =>
                    (r \in Staged /\ ArtifactComplete(r)))
    /\ [](Cardinality(files \ StrayFiles) = Cardinality(Staged))
    /\ [](\A f \in StrayFiles : \E r \in Reqs : StagingFailed(r) /\ f \in ArtifactsOf(r))
    /\ [][\A f \in files : f \in files']_vars

\* C16 witness: two requests have reached different terminal states and
\* both artifacts are there
C16_Witness ==
    \E r, q \in Reqs :
        /\ Done(r) /\ Expired(r)
        /\ Done(q) /\ Completed(q)
        /\ ArtifactComplete(r) /\ ArtifactComplete(q)
        /\ Cardinality(files) = 2

\* the class the policy assigns to a completed execution, from the exit
\* code and stderr alone
ExpectedClass(rc, stderr) ==
    IF rc = 0 THEN "Success"
    ELSE IF rc = 137 \/ HasOomMarker(stderr) THEN "MemoryLimitExceeded"
    ELSE "RuntimeError"

\* C17: the class of a completed execution is the one fixed by its exit code
\* and stderr, whatever its stdout: one of Success, MemoryLimitExceeded and
\* RuntimeError; exit code 0 is Success even with a marker in stderr, and a
\* marker makes any non-zero exit code MemoryLimitExceeded.
C17_ClassificationIsOrderedFunction ==
    \A r \in Reqs :
        (Completed(r) /\ Done(r)) =>
            LET rc == proc[r][1].returncode
                err == proc[r][1].stderr
                class == Classification(TheResponse(r))
            IN /\ class \in {"Success", "MemoryLimitExceeded", "RuntimeError"}
               /\ class = ExpectedClass(rc, err)
               /\ rc = 0 => class = "Success"
               /\ (rc # 0 /\ HasOomMarker(err)) => class = "MemoryLimitExceeded"

\* C17 witness: an execution that exited 0 with "Killed" as its stderr has
\* been answered as a success
C17_Witness ==
    \E r \in Reqs :
        /\ Completed(r) /\ Done(r)
        /\ proc[r][1].returncode = 0
        /\ proc[r][1].stderr = Killed
        /\ Classification(TheResponse(r)) = "Success"

\* the instances that carry the name the request gave its sandbox
NamedAfter(r) ==
    {c \in containers : launches[r] # <<>> /\ c.name = launches[r][1].name}

\* C18: when a request has returned and its sandbox had completed within the
\* deadline, or its removal had succeeded, no instance of its name is left;
\* an instance is left behind a returned request only if the deadline had
\* expired and the removal failed or timed out.
C18_NoInstanceAfterReturn ==
    \A r \in Reqs :
        Done(r) =>
            /\ (Completed(r) \/ rm_result[r] = "removed") =>
                    (InstancesOf(r) = {} /\ NamedAfter(r) = {})
            /\ (InstancesOf(r) # {} \/ NamedAfter(r) # {}) =>
                    (Expired(r) /\ rm_result[r] \in {"nonzero", "spawn_error", "timeout"})

\* C18 witness: one request returned after its removal succeeded, another
\* after its removal timed out, and the instance of the latter is still there
C18_Witness ==
    \E r, q \in Reqs :
        /\ Done(r) /\ rm_result[r] = "removed" /\ created[r] = 1
        /\ Done(q) /\ rm_result[q] = "timeout" /\ InstancesOf(q) # {}

\* the class of the outcome a request ended its wait with
OutcomeClass(r) ==
    IF Expired(r) THEN "Timeout"
    ELSE ExpectedClass(proc[r][1].returncode, proc[r][1].stderr)

\* C19: the answer to a request that ended with an execution outcome has an
\* output and an error, and nothing else but exit_code; it has exit_code
\* exactly when the outcome is a RuntimeError, and then exit_code is the
\* non-zero exit code; Success, Timeout and MemoryLimitExceeded answers
\* have none.
C19_ExitCodeOnlyForRuntimeError ==
    \A r \in Reqs :
        (Done(r) /\ (Completed(r) \/ Expired(r)) /\ TheResponse(r).status = 200) =>
            LET body == TheResponse(r).body IN
            /\ {"output", "error"} \subseteq DOMAIN body
            /\ DOMAIN body \subseteq {"output", "error", "exit_code"}
            /\ DOMAIN body.output = 1..Len(body.output)
            /\ DOMAIN body.error = 1..Len(body.error)
            /\ "exit_code" \in DOMAIN body <=> OutcomeClass(r) = "RuntimeError"
            /\ "exit_code" \in DOMAIN body =>
                    (body.exit_code # 0 /\ body.exit_code = proc[r][1].returncode)
            /\ OutcomeClass(r) \in {"Success", "Timeout", "MemoryLimitExceeded"} =>
                    "exit_code" \notin DOMAIN body

\* C19 witness: one answer is a RuntimeError with exit code 1, another is a
\* MemoryLimitExceeded without exit code
C19_Witness ==
    \E r, q \in Reqs :
        /\ Done(r) /\ Completed(r)
        /\ "exit_code" \in DOMAIN TheResponse(r).body
        /\ TheResponse(r).body.exit_code = 1
        /\ Done(q) /\ Completed(q)
        /\ proc[q][1].returncode = 137
        /\ "exit_code" \notin DOMAIN TheResponse(q).body

=============================================================================
